---- MODULE Spec2Model ----
(***************************************************************************)
(* Model of the dashing push server: the Broker dispatch loop, the event   *)
(* producers (Job tasks and the two ingestion handlers) and the streaming  *)
(* EventsHandler of server.go.                                             *)
(*                                                                         *)
(* Every goroutine is a process with a program counter.  A send on an      *)
(* unbuffered Go channel is a rendezvous: the sender's step and the        *)
(* receiver's step are one action.                                         *)
(***************************************************************************)
EXTENDS Integers, Sequences, FiniteSets, TLC

\* ------------------------------------------------------------------ bounds
MaxEvents == 2          \* Events handed to the Broker in one behaviour
MaxTick == 1            \* times the wall clock advances
MaxCalls == 6           \* calls made on the Job registries

\* The viewer connections, one EventsHandler each.  A delivery channel is
\* named after the handler that made it.
Handlers == {"v1", "v2"}
NoChan == "none"
NoHandler == "none"
\* The goroutines that send on broker.events: a Job task started by
\* Worker.Start and the handler of an ingestion request.
Producers == {"job", "post"}

\* ------------------------------------------------------------- JSON values
\* A value of a body map: an integer, a string, or a Go value that
\* encoding/json cannot encode (a channel).
IntV(n) == [kind |-> "int", n |-> n, s |-> ""]
StrV(s) == [kind |-> "str", n |-> 0, s |-> s]
ChanV == [kind |-> "chan", n |-> 0, s |-> ""]

\* Keys of a body in the byte order json.Marshal sorts map keys into.
KeyOrder == <<"id", "updatedAt", "value">>

EmptyMap == [k \in {} |-> IntV(0)]

\* map[string]interface{}: a nil map reads as empty but panics on assignment.
NilBody == [isNil |-> TRUE, m |-> EmptyMap]
GoodBody == [isNil |-> FALSE, m |-> [k \in {"value"} |-> IntV(5)]]
StaleBody ==
    [isNil |-> FALSE,
     m |-> [k \in {"id", "updatedAt", "value"} |->
              IF k = "id" THEN StrV("old")
              ELSE IF k = "updatedAt" THEN StrV("never") ELSE IntV(5)]]
BadBody == [isNil |-> FALSE, m |-> [k \in {"value"} |-> ChanV]]

\* What each producer may hand over.  A Job builds its Event freely.  An
\* ingestion handler publishes the request's id parameter, whatever the
\* JSON decoder left in `data` (an object, or the nil map for the JSON text
\* null) and the literal target of its route.
NewEvent(id, body, target) == [id |-> id, body |-> body, target |-> target]

\* An ingestion request whose body decoded: its route, its id parameter
\* and the map the decoder produced.
Request(route, id, body) == [route |-> route, id |-> id, body |-> body]

DashboardRequests ==
    {Request("dashboards", "d1", b) : b \in {StaleBody, NilBody}}
WidgetRequests == {Request("widgets", "w1", GoodBody)}

\* &Event{param(r, "id"), data, "dashboards"} and &Event{param(r, "id"), data, ""}
DashboardEvent(r) == NewEvent(r.id, r.body, "dashboards")

WidgetEventAsDashboard(r) == NewEvent(r.id, r.body, "dashboards")

WidgetEvent(r) == NewEvent(r.id, r.body, "")

HandlerEvent(r) ==
    IF r.route = "dashboards" THEN DashboardEvent(r) ELSE WidgetEvent(r)

DashboardEvents == {DashboardEvent(r) : r \in DashboardRequests}
WidgetEvents == {WidgetEvent(r) : r \in WidgetRequests}
JobEvents == {NewEvent("j1", BadBody, "")}

ProducerEvents(p) ==
    IF p = "job" THEN JobEvents ELSE DashboardEvents \cup WidgetEvents

\* net/http status codes.
StatusNoContent == 204
StatusBadRequest == 400
StatusInternalServerError == 500

\* ------------------------------------------------------------------- clock
\* The largest int32.
MaxInt32 == 2147483647

\* time.Now().Unix() at clock position t, an int64 written as
\* hi * 2^31 + lo with 0 <= lo < 2^31.  Position 0 is the last second
\* before 2^31, position t >= 1 is 2^31 + t - 1.
UnixTime(t) ==
    IF t = 0 THEN [hi |-> 0, lo |-> MaxInt32] ELSE [hi |-> 1, lo |-> t - 1]

\* int32(x): the low 32 bits of x, read as a signed number.
Int32(x) == IF x.hi % 2 = 0 THEN x.lo ELSE (x.lo - MaxInt32) - 1

\* --------------------------------------------------------- Job registries
\* The Jobs that get registered; NoJob is the nil Job.
Jobs == {"ja", "jb"}
NoJob == "nil"
Workers == {"w1", "w2"}

\* A Go slice: its backing array (0: none) and its length; its capacity is
\* the length of the backing array.
NilSlice == [a |-> 0, len |-> 0]

\* A Worker before NewWorker has made it, and the struct NewWorker returns.
NoWorker == [made |-> FALSE, broker |-> "", config |-> "", registry |-> NilSlice]
Worker(b, c, r) == [made |-> TRUE, broker |-> b, config |-> c, registry |-> r]

\* The Broker and the Config a program hands to NewWorker for worker w.
BrokerOf(w) == "b1"
ConfigOf(w) == IF w = "w1" THEN "c1" ELSE "c2"

VARIABLES
    hpc,        \* handler -> position in EventsHandler
    closed,     \* handler -> the CloseNotify channel has fired
    stalled,    \* handlers whose viewer has stopped reading the stream
    hev,        \* handler -> index of the Event it holds (0: none)
    hjson,      \* handler -> the bytes json.Marshal returned to it
    out,        \* handler -> lines written to its ResponseWriter
    flushed,    \* handler -> number of lines flushed to the viewer
    recvd,      \* handler -> indices of the Events received on its channel
    mutex,      \* holder of Server.mutex (NoHandler: unlocked)
    clients,    \* Broker registry: set of delivery channels
    bpc,        \* Broker position: "select" or "send"
    bev,        \* index of the Event the Broker is broadcasting
    bto,        \* channel the Broker is blocked sending to (NoChan: none)
    todo,       \* channels the range loop has not visited yet
    prod,       \* producer -> <<>>, or <<e, r>>: the Event e it is blocked
                \* sending and the request r it was built from
    log,        \* Events accepted by the Broker, in acceptance order
    heap,       \* index -> current content of that Event's Body map
    live,       \* handlers subscribed and not yet unsubscribed
    subAt,      \* handler -> Len(log) when its subscribe was applied (-1)
    unsubAt,    \* handler -> Len(log) when its unsubscribe was applied (-1)
    now,        \* clock position
    resp,       \* connection -> status code answered (0: none yet)
    jobs,       \* the process-wide slice of default Jobs
    workers,    \* worker -> the Worker struct NewWorker returned for it
    mem,        \* backing arrays of the slices: array -> its cells
    tasks,      \* worker -> the goroutines its Start calls launched
    call,       \* the last call made on the Job registries
    panicked    \* a registration has panicked

vars == <<hpc, closed, stalled, hev, hjson, out, flushed, recvd, mutex,
          clients, bpc, bev, bto, todo, prod, log, heap, live, subAt,
          unsubAt, now, resp, jobs, workers, mem, tasks, call,
          panicked>>

hvars == <<hpc, closed, stalled, hev, hjson, out, flushed, recvd, mutex>>
bvars == <<clients, bpc, bev, bto, todo>>
gvars == <<live, subAt, unsubAt>>
wvars == <<jobs, workers, mem, tasks, call, panicked>>

Init ==
    /\ hpc = [h \in Handlers |-> "idle"]
    /\ closed = [h \in Handlers |-> FALSE]
    /\ stalled = {}
    /\ hev = [h \in Handlers |-> 0]
    /\ hjson = [h \in Handlers |-> <<>>]
    /\ out = [h \in Handlers |-> <<>>]
    /\ flushed = [h \in Handlers |-> 0]
    /\ recvd = [h \in Handlers |-> <<>>]
    /\ mutex = NoHandler
    /\ clients = {}
    /\ bpc = "select"
    /\ bev = 0
    /\ bto = NoChan
    /\ todo = {}
    /\ prod = [p \in Producers |-> <<>>]
    /\ log = <<>>
    /\ heap = <<>>
    /\ live = {}
    /\ subAt = [h \in Handlers |-> -1]
    /\ unsubAt = [h \in Handlers |-> -1]
    /\ now = 0
    /\ resp = [c \in Handlers \cup {"post"} |-> 0]
    /\ jobs = NilSlice
    /\ workers = [w \in Workers |-> NoWorker]
    /\ mem = <<>>
    /\ tasks = [w \in Workers |-> <<>>]
    /\ call = [op |-> "none", w |-> "", job |-> NoJob, n |-> 0]
    /\ panicked = FALSE

\* ------------------------------------------------------------- environment
\* The wall clock advances.  Only Format reads the clock, so the clock is
\* stepped while some handler is about to read it.
Tick ==
    /\ now < MaxTick
    /\ \E h \in Handlers : hpc[h] = "format"
    /\ now' = now + 1
    /\ UNCHANGED <<hvars, bvars, gvars, prod, log, heap, resp, wvars>>

\* A Job task or an ingestion handler builds an Event and blocks on
\* broker.events <- e.  The ingestion handler has decoded the request body
\* and has not answered yet.
Produce(p) ==
    /\ prod[p] = <<>>
    /\ Len(log) + Cardinality({q \in Producers : prod[q] # <<>>}) < MaxEvents
    /\ IF p = "job"
       THEN /\ \E e \in JobEvents :
                 prod' = [prod EXCEPT ![p] =
                            <<e, Request("job", e.id, e.body)>>]
            /\ UNCHANGED resp
       ELSE /\ \E r \in DashboardRequests \cup WidgetRequests :
                 prod' = [prod EXCEPT ![p] = <<HandlerEvent(r), r>>]
            /\ resp' = [resp EXCEPT ![p] = 0]
    /\ UNCHANGED <<hvars, bvars, gvars, log, heap, now, wvars>>

\* The viewer goes away: the transport fires the close notification.  A
\* flush that was blocked on the viewer fails and returns.  The handler
\* looks at the notification only in its select, so the notification is
\* taken to arrive while the handler waits there or in a blocked flush.
Disconnect(h) ==
    /\ hpc[h] = "select" \/ (hpc[h] = "flush" /\ h \in stalled)
    /\ ~closed[h]
    /\ closed' = [closed EXCEPT ![h] = TRUE]
    /\ stalled' = stalled \ {h}
    /\ UNCHANGED <<hpc, hev, hjson, out, flushed, recvd, mutex, bvars, gvars,
                   prod, log, heap, now, resp, wvars>>

\* The viewer stays connected but stops reading its stream: the handler's
\* next flush finds the connection's send window full.
Stall(h) ==
    /\ hpc[h] = "flush"
    /\ ~closed[h]
    /\ h \notin stalled
    /\ stalled' = stalled \cup {h}
    /\ UNCHANGED <<hpc, closed, hev, hjson, out, flushed, recvd, mutex, bvars,
                   gvars, prod, log, heap, now, resp, wvars>>

\* ------------------------------------------------------------------ Broker
\* case s := <-b.newClients: the channel joins the registry.
BrokerSubscribeReplay(c) ==
    /\ bpc = "select"
    /\ clients' = clients \cup {c}
    /\ IF Len(log) > 0
       THEN bpc' = "send" /\ bev' = Len(log) /\ bto' = c /\ todo' = {}
       ELSE UNCHANGED <<bpc, bev, bto, todo>>

BrokerSubscribe(c) ==
    /\ bpc = "select"
    /\ clients' = clients \cup {c}
    /\ UNCHANGED <<bpc, bev, bto, todo>>

\* case s := <-b.defunctClients: the channel leaves the registry; removing
\* a channel that is not registered changes nothing.
BrokerUnsubscribeKeep(c) ==
    /\ bpc = "select"
    /\ UNCHANGED <<clients, bpc, bev, bto, todo>>

BrokerUnsubscribe(c) ==
    /\ bpc = "select"
    /\ clients' = clients \ {c}
    /\ UNCHANGED <<bpc, bev, bto, todo>>

\* case event := <-b.events: the Event is accepted and the range loop over
\* the registry starts; the loop blocks on the first channel it visits.
BrokerPublish(e) ==
    /\ bpc = "select"
    /\ log' = Append(log, [id |-> e.id, body |-> e.body, target |-> e.target,
                           reg |-> live, targets |-> clients])
    /\ heap' = Append(heap, e.body)
    /\ IF clients = {}
       THEN UNCHANGED <<bpc, bev, bto, todo>>
       ELSE /\ bpc' = "send"
            /\ bev' = Len(log) + 1
            /\ \E c \in clients : bto' = c /\ todo' = clients \ {c}
    /\ UNCHANGED clients

\* s <- event completes on channel c; the loop moves to the next channel
\* or, after the last one, back to the select.
BrokerSent(c) ==
    /\ bpc = "send"
    /\ bto = c
    /\ IF todo = {}
       THEN bpc' = "select" /\ bev' = 0 /\ bto' = NoChan /\ todo' = {}
       ELSE /\ \E d \in todo : bto' = d /\ todo' = todo \ {d}
            /\ UNCHANGED <<bpc, bev>>
    /\ UNCHANGED clients

\* A blocked producer's send on broker.events is received by the Broker;
\* an ingestion handler goes on to w.WriteHeader(http.StatusNoContent).
Accept(p) ==
    /\ prod[p] # <<>>
    /\ BrokerPublish(prod[p][1])
    /\ prod' = [prod EXCEPT ![p] = <<>>]
    /\ resp' = IF p = "post" THEN [resp EXCEPT ![p] = StatusNoContent] ELSE resp
    /\ UNCHANGED <<hvars, gvars, now, wvars>>

\* ------------------------------------------------------------ EventsHandler
\* events := make(chan *Event): every handler makes a channel of its own.
ChanOfShared(h) == "v1"

ChanOf(h) == h

\* The channel the deferred function sends on defunctClients.
DefunctChanOther(h) == NoChan

DefunctChan(h) == ChanOf(h)

\* data["id"] = event.ID; data["updatedAt"] = int32(time.Now().Unix())
InjectIfAbsent(body, id, t) ==
    [body EXCEPT !.m =
        [k \in DOMAIN body.m \cup {"id", "updatedAt"} |->
            IF k \in DOMAIN body.m THEN body.m[k]
            ELSE IF k = "id" THEN StrV(id) ELSE IntV(Int32(UnixTime(t)))]]

Inject(body, id, t) ==
    [body EXCEPT !.m =
        [k \in DOMAIN body.m \cup {"id", "updatedAt"} |->
            IF k = "id" THEN StrV(id)
            ELSE IF k = "updatedAt" THEN IntV(Int32(UnixTime(t)))
            ELSE body.m[k]]]

\* json.Marshal of a map: an error if a value cannot be encoded, else the
\* members in sorted key order.
MarshalOK(m) == \A k \in DOMAIN m : m[k].kind # "chan"

Marshal(m) ==
    LET ks == SelectSeq(KeyOrder, LAMBDA k : k \in DOMAIN m)
    IN  [i \in 1..Len(ks) |-> [k |-> ks[i], v |-> m[ks[i]]]]

\* The lines of one frame: Fprintf "event: %s\n" when the target is not
\* empty, then Fprintf "data: %s\n\n".
EventLine(t, i) == [tag |-> "event", target |-> t, json |-> <<>>, ev |-> i]
DataLine(j, i) == [tag |-> "data", target |-> "", json |-> j, ev |-> i]
BlankLine(i) == [tag |-> "blank", target |-> "", json |-> <<>>, ev |-> i]

FrameAlwaysNamed(target, json, i) ==
    <<EventLine(target, i), DataLine(json, i), BlankLine(i)>>

Frame(target, json, i) ==
    (IF target # "" THEN <<EventLine(target, i)>> ELSE <<>>)
        \o <<DataLine(json, i), BlankLine(i)>>

\* A viewer connects; the transport supports flushing and close
\* notification, the handler makes its channel and blocks on
\* s.broker.newClients <- events.
Connect(h) ==
    /\ hpc[h] = "idle"
    /\ hpc' = [hpc EXCEPT ![h] = "subscribe"]
    /\ UNCHANGED <<closed, stalled, hev, hjson, out, flushed, recvd, mutex,
                   bvars, gvars, prod, log, heap, now, resp, wvars>>

\* The Broker receives the handler's channel from newClients; the handler
\* sets its headers and enters the loop.
Subscribe(h) ==
    /\ hpc[h] = "subscribe"
    /\ BrokerSubscribe(ChanOf(h))
    /\ hpc' = [hpc EXCEPT ![h] = "select"]
    /\ live' = live \cup {h}
    /\ subAt' = [subAt EXCEPT ![h] = Len(log)]
    /\ UNCHANGED <<closed, stalled, hev, hjson, out, flushed, recvd, mutex,
                   unsubAt, prod, log, heap, now, resp, wvars>>

\* case event := <-events
Deliver(h) ==
    /\ hpc[h] = "select"
    /\ BrokerSent(ChanOf(h))
    /\ hev' = [hev EXCEPT ![h] = bev]
    /\ recvd' = [recvd EXCEPT ![h] = Append(@, bev)]
    /\ hpc' = [hpc EXCEPT ![h] = "lock"]
    /\ UNCHANGED <<closed, stalled, hjson, out, flushed, mutex, gvars, prod,
                   log, heap, now, resp, wvars>>

\* s.mutex.Lock()
LockShared(h) ==
    /\ hpc[h] = "lock"
    /\ mutex' = h
    /\ hpc' = [hpc EXCEPT ![h] = "format"]
    /\ UNCHANGED <<closed, stalled, hev, hjson, out, flushed, recvd, bvars,
                   gvars, prod, log, heap, now, resp, wvars>>

Lock(h) ==
    /\ hpc[h] = "lock"
    /\ mutex = NoHandler
    /\ mutex' = h
    /\ hpc' = [hpc EXCEPT ![h] = "format"]
    /\ UNCHANGED <<closed, stalled, hev, hjson, out, flushed, recvd, bvars,
                   gvars, prod, log, heap, now, resp, wvars>>

\* data := event.Body; the two assignments; json.Marshal(data).
\*  - a nil Body: the first assignment panics, the deferred function runs
\*    and the mutex stays locked;
\*  - Marshal fails: continue, with the mutex still locked;
\*  - otherwise: Unlock and go on to write the frame.
Format(h) ==
    /\ hpc[h] = "format"
    /\ LET i == hev[h] IN
         IF heap[i].isNil
         THEN /\ hpc' = [hpc EXCEPT ![h] = "unsub"]
              /\ hev' = [hev EXCEPT ![h] = 0]
              /\ UNCHANGED <<heap, mutex, hjson>>
         ELSE LET data == Inject(heap[i], log[i].id, now) IN
              /\ heap' = [heap EXCEPT ![i] = data]
              /\ IF MarshalOK(data.m)
                 THEN /\ hjson' = [hjson EXCEPT ![h] = Marshal(data.m)]
                      /\ mutex' = NoHandler
                      /\ hpc' = [hpc EXCEPT ![h] = "write"]
                      /\ UNCHANGED hev
                 ELSE /\ hpc' = [hpc EXCEPT ![h] = "select"]
                      /\ hev' = [hev EXCEPT ![h] = 0]
                      /\ UNCHANGED <<mutex, hjson>>
    /\ UNCHANGED <<closed, stalled, out, flushed, recvd, bvars, gvars, prod,
                   log, now, resp, wvars>>

\* The two Fprintf calls.
Write(h) ==
    /\ hpc[h] = "write"
    /\ out' = [out EXCEPT ![h] = @ \o Frame(log[hev[h]].target, hjson[h], hev[h])]
    /\ hpc' = [hpc EXCEPT ![h] = "flush"]
    /\ UNCHANGED <<closed, stalled, hev, hjson, flushed, recvd, mutex, bvars,
                   gvars, prod, log, heap, now, resp, wvars>>

\* f.Flush(): blocks while the viewer does not read.
Flush(h) ==
    /\ hpc[h] = "flush"
    /\ h \notin stalled
    /\ flushed' = [flushed EXCEPT ![h] = Len(out[h])]
    /\ hpc' = [hpc EXCEPT ![h] = "select"]
    /\ hev' = [hev EXCEPT ![h] = 0]
    /\ hjson' = [hjson EXCEPT ![h] = <<>>]
    /\ UNCHANGED <<closed, stalled, out, recvd, mutex, bvars, gvars, prod,
                   log, heap, now, resp, wvars>>

\* case <-closer: return; the deferred function blocks on
\* s.broker.defunctClients <- events.
Close(h) ==
    /\ hpc[h] = "select"
    /\ closed[h]
    /\ hpc' = [hpc EXCEPT ![h] = "unsub"]
    /\ UNCHANGED <<closed, stalled, hev, hjson, out, flushed, recvd, mutex,
                   bvars, gvars, prod, log, heap, now, resp, wvars>>

\* The Broker receives the channel from defunctClients; the handler ends.
Unsubscribe(h) ==
    /\ hpc[h] = "unsub"
    /\ BrokerUnsubscribe(DefunctChan(h))
    /\ hpc' = [hpc EXCEPT ![h] = "done"]
    /\ live' = live \ {h}
    /\ unsubAt' = [unsubAt EXCEPT ![h] = Len(log)]
    /\ UNCHANGED <<closed, stalled, hev, hjson, out, flushed, recvd, mutex,
                   subAt, prod, log, heap, now, resp, wvars>>

\* ------------------------------------------- ingestion and connection errors
\* The ResponseWriter is no http.Flusher or no http.CloseNotifier:
\* http.Error(w, ..., http.StatusInternalServerError); return.
ConnectUnsupportedNoReturn(h) ==
    /\ hpc[h] = "idle"
    /\ resp' = [resp EXCEPT ![h] = StatusInternalServerError]
    /\ hpc' = [hpc EXCEPT ![h] = "subscribe"]
    /\ UNCHANGED <<closed, stalled, hev, hjson, out, flushed, recvd, mutex,
                   bvars, gvars, prod, log, heap, now, wvars>>

ConnectUnsupported(h) ==
    /\ hpc[h] = "idle"
    /\ resp' = [resp EXCEPT ![h] = StatusInternalServerError]
    /\ hpc' = [hpc EXCEPT ![h] = "failed"]
    /\ UNCHANGED <<closed, stalled, hev, hjson, out, flushed, recvd, mutex,
                   bvars, gvars, prod, log, heap, now, wvars>>

\* An ingestion request on route r whose body does not decode:
\* http.Error(w, "", http.StatusBadRequest); return.
RejectNoReturn(r) ==
    /\ prod["post"] = <<>>
    /\ resp' = [resp EXCEPT !["post"] = StatusBadRequest]
    /\ LET q == Request(r, "x1", NilBody) IN
         prod' = [prod EXCEPT !["post"] = <<HandlerEvent(q), q>>]
    /\ UNCHANGED <<hvars, bvars, gvars, log, heap, now, wvars>>

Reject(r) ==
    /\ prod["post"] = <<>>
    /\ resp' = [resp EXCEPT !["post"] = StatusBadRequest]
    /\ UNCHANGED <<hvars, bvars, gvars, prod, log, heap, now, wvars>>

\* --------------------------------------------------------- Worker and Jobs
Cap(s) == IF s.a = 0 THEN 0 ELSE Len(mem[s.a])

\* The elements of slice s when the arrays are m.
Contents(m, s) == IF s.a = 0 THEN <<>> ELSE SubSeq(m[s.a], 1, s.len)

\* The capacity append gives a new backing array: the needed length if
\* that is more than twice the old capacity, else twice the old capacity
\* (slices of fewer than 256 elements; the size classes of 16-byte
\* interface values do not round these small capacities up).
GrowCap(old, need) == IF need > 2 * old THEN need ELSE 2 * old

\* append(s, xs...): the slice it returns and the arrays afterwards.  With
\* room in the backing array the elements are written in place, else they
\* go to a new array together with a copy of s.
AppendSlice(s, xs) ==
    IF s.len + Len(xs) <= Cap(s)
    THEN [a |-> s.a, len |-> s.len + Len(xs)]
    ELSE [a |-> Len(mem) + 1, len |-> s.len + Len(xs)]

AppendMem(s, xs) ==
    IF Len(xs) = 0 THEN mem
    ELSE IF s.len + Len(xs) <= Cap(s)
    THEN [mem EXCEPT ![s.a] =
            [i \in 1..Len(@) |->
                IF i > s.len /\ i <= s.len + Len(xs) THEN xs[i - s.len]
                ELSE @[i]]]
    ELSE LET old == Contents(mem, s) \o xs
             c == GrowCap(Cap(s), Len(old))
         IN  Append(mem, [i \in 1..c |-> IF i <= Len(old) THEN old[i] ELSE NoJob])

Called(op, w, j) == call' = [op |-> op, w |-> w, job |-> j, n |-> call.n + 1]

CanCall == ~panicked /\ call.n < MaxCalls

\* func Register(j Job): the process-wide registration.
Register(j) ==
    /\ CanCall
    /\ Called("Register", "", j)
    /\ IF j = NoJob
       THEN panicked' = TRUE /\ UNCHANGED <<jobs, mem>>
       ELSE /\ jobs' = AppendSlice(jobs, <<j>>)
            /\ mem' = AppendMem(jobs, <<j>>)
            /\ UNCHANGED panicked
    /\ UNCHANGED <<workers, tasks>>
    /\ UNCHANGED <<hvars, bvars, gvars, prod, log, heap, now, resp>>

\* func NewWorker(b, c): registry: append([]Job(nil), jobs...)
NewWorkerShared(w) ==
    /\ CanCall
    /\ ~workers[w].made
    /\ Called("NewWorker", w, NoJob)
    /\ workers' = [workers EXCEPT ![w] = Worker(BrokerOf(w), ConfigOf(w), jobs)]
    /\ UNCHANGED <<jobs, mem, tasks, panicked>>
    /\ UNCHANGED <<hvars, bvars, gvars, prod, log, heap, now, resp>>

NewWorker(w) ==
    /\ CanCall
    /\ ~workers[w].made
    /\ Called("NewWorker", w, NoJob)
    /\ workers' = [workers EXCEPT ![w] =
                     Worker(BrokerOf(w), ConfigOf(w),
                            AppendSlice(NilSlice, Contents(mem, jobs)))]
    /\ mem' = AppendMem(NilSlice, Contents(mem, jobs))
    /\ UNCHANGED <<jobs, tasks, panicked>>
    /\ UNCHANGED <<hvars, bvars, gvars, prod, log, heap, now, resp>>

\* func (w *Worker) Register(j Job)
WorkerRegisterNoCheck(w, j) ==
    /\ CanCall
    /\ workers[w].made
    /\ Called("Worker.Register", w, j)
    /\ workers' = [workers EXCEPT ![w].registry = AppendSlice(@, <<j>>)]
    /\ mem' = AppendMem(workers[w].registry, <<j>>)
    /\ UNCHANGED <<jobs, tasks, panicked>>
    /\ UNCHANGED <<hvars, bvars, gvars, prod, log, heap, now, resp>>

WorkerRegister(w, j) ==
    /\ CanCall
    /\ workers[w].made
    /\ Called("Worker.Register", w, j)
    /\ IF j = NoJob
       THEN panicked' = TRUE /\ UNCHANGED <<workers, mem>>
       ELSE /\ workers' = [workers EXCEPT ![w].registry = AppendSlice(@, <<j>>)]
            /\ mem' = AppendMem(workers[w].registry, <<j>>)
            /\ UNCHANGED panicked
    /\ UNCHANGED <<jobs, tasks>>
    /\ UNCHANGED <<hvars, bvars, gvars, prod, log, heap, now, resp>>

\* The goroutine of go j.Work(w.config, w.broker.events).
Task(j, c, b) == [job |-> j, config |-> c, send |-> <<b, "events">>]

\* func (w *Worker) Start(): one goroutine per element of w.registry.
StartDefaults(w) ==
    /\ CanCall
    /\ workers[w].made
    /\ tasks[w] = <<>>
    /\ Called("Start", w, NoJob)
    /\ LET r == Contents(mem, jobs) IN
         tasks' = [tasks EXCEPT ![w] =
                     [k \in 1..Len(r) |->
                        Task(r[k], workers[w].config, workers[w].broker)]]
    /\ UNCHANGED <<jobs, workers, mem, panicked>>
    /\ UNCHANGED <<hvars, bvars, gvars, prod, log, heap, now, resp>>

Start(w) ==
    /\ CanCall
    /\ workers[w].made
    /\ tasks[w] = <<>>
    /\ Called("Start", w, NoJob)
    /\ LET r == Contents(mem, workers[w].registry) IN
         tasks' = [tasks EXCEPT ![w] =
                     [k \in 1..Len(r) |->
                        Task(r[k], workers[w].config, workers[w].broker)]]
    /\ UNCHANGED <<jobs, workers, mem, panicked>>
    /\ UNCHANGED <<hvars, bvars, gvars, prod, log, heap, now, resp>>

\* --------------------------------------------------------------- behaviour
HandlerStep(h) ==
    \/ Subscribe(h)
    \/ Deliver(h)
    \/ Lock(h)
    \/ Format(h)
    \/ Write(h)
    \/ Flush(h)
    \/ Close(h)
    \/ Unsubscribe(h)

Next ==
    \/ Tick
    \/ \E p \in Producers : Produce(p)
    \/ \E p \in Producers : Accept(p)
    \/ \E h \in Handlers : Connect(h)
    \/ \E h \in Handlers : Disconnect(h)
    \/ \E h \in Handlers : Stall(h)
    \/ \E h \in Handlers : HandlerStep(h)

Spec == Init /\ [][Next]_vars

\* The Go scheduler runs every goroutine that can run: a handler or Broker
\* step that stays possible is eventually taken.  Viewers, producers and
\* the clock are under no obligation.
FairSpec ==
    /\ Spec
    /\ \A h \in Handlers : WF_vars(HandlerStep(h))
    /\ \A p \in Producers : WF_vars(Accept(p))

\* The streaming server together with requests it answers with an error:
\* ingestion requests whose body does not decode, and viewers whose
\* transport cannot stream.
Routes == {"dashboards", "widgets"}

IngestNext ==
    \/ Next
    \/ \E r \in Routes : Reject(r)

IngestSpec == Init /\ [][IngestNext]_vars

ConnectNext ==
    \/ Next
    \/ \E h \in Handlers : ConnectUnsupported(h)

ConnectSpec == Init /\ [][ConnectNext]_vars

\* The program that sets up its Jobs: process-wide registrations, Workers
\* made, registered on and started, in any order.
WorkerNext ==
    \/ \E j \in Jobs \cup {NoJob} : Register(j)
    \/ \E w \in Workers : NewWorker(w)
    \/ \E w \in Workers : \E j \in Jobs \cup {NoJob} : WorkerRegister(w, j)
    \/ \E w \in Workers : Start(w)

WorkerSpec == Init /\ [][WorkerNext]_vars

\* ==================================================================== claims
Count(seq, i) == Cardinality({k \in 1..Len(seq) : seq[k] = i})

\* The range loop for Event i has visited every channel.
BroadcastDone(i) == i < Len(log) \/ bpc = "select"

TypeOK ==
    /\ hpc \in [Handlers -> {"idle", "subscribe", "select", "lock", "format",
                             "write", "flush", "unsub", "done",
                             "failed"}]
    /\ mutex \in Handlers \cup {NoHandler}
    /\ clients \subseteq Handlers
    /\ bpc \in {"select", "send"}
    /\ Len(log) <= MaxEvents
    /\ Len(heap) = Len(log)
    /\ now \in 0..MaxTick

\* C1: fan-out exactly once.  An accepted Event is received at most once by
\* any handler, never by a handler that was not registered when it was
\* accepted, and, once its broadcast is complete, exactly once by each
\* handler that was registered then.
C1_FanOutExactlyOnce ==
    \A i \in 1..Len(log) : \A h \in Handlers :
        /\ Count(recvd[h], i) <= 1
        /\ h \notin log[i].reg => Count(recvd[h], i) = 0
        /\ (h \in log[i].reg /\ BroadcastDone(i)) => Count(recvd[h], i) = 1

\* Both viewers were registered and each has received the Event once.
C1_Witness ==
    \E i \in 1..Len(log) :
        /\ log[i].reg = Handlers
        /\ \A h \in Handlers : Count(recvd[h], i) = 1

\* C2: single total order.  Every handler receives Events in the order the
\* Broker accepted them, and a handler registered at the acceptance of two
\* Events has, once the later broadcast is complete, received both, the
\* earlier one first.
C2_SingleTotalOrder ==
    \A h \in Handlers :
        /\ \A j, k \in 1..Len(recvd[h]) : j < k => recvd[h][j] < recvd[h][k]
        /\ \A e1, e2 \in 1..Len(log) :
             (e1 < e2 /\ h \in log[e1].reg /\ h \in log[e2].reg
                 /\ BroadcastDone(e2))
             => \E j, k \in 1..Len(recvd[h]) :
                    j < k /\ recvd[h][j] = e1 /\ recvd[h][k] = e2

\* Two Events of different producers, both viewers received both.
C2_Witness ==
    /\ Len(log) >= 2
    /\ log[1].id # log[2].id
    /\ \A h \in Handlers : recvd[h] = <<1, 2>>

\* C3: unsubscribe before publish.  Once a handler's unsubscribe has been
\* applied, the Broker never again targets its channel: not in the loop in
\* progress, not in the target set of any Event accepted afterwards, and
\* the handler receives none of them; those Events still go to exactly the
\* channels of the handlers that remain registered.
C3_UnsubscribeBeforePublish ==
    \A h \in Handlers :
        unsubAt[h] >= 0 =>
            /\ ChanOf(h) \notin clients
            /\ bto # ChanOf(h)
            /\ ChanOf(h) \notin todo
            /\ \A i \in 1..Len(log) :
                 i > unsubAt[h] =>
                    /\ ChanOf(h) \notin log[i].targets
                    /\ Count(recvd[h], i) = 0
                    /\ log[i].targets = {ChanOf(g) : g \in log[i].reg}

\* A viewer received an Event and left; a later Event reached the other
\* viewer only.
C3_Witness ==
    \E h, g \in Handlers : \E i \in 1..Len(log) :
        /\ h # g
        /\ unsubAt[h] >= 0
        /\ recvd[h] # <<>>
        /\ i > unsubAt[h]
        /\ Count(recvd[g], i) = 1

\* C4: no replay.  Every Event a handler receives was accepted after the
\* handler's subscribe was applied and before its unsubscribe was.
C4_NoReplay ==
    \A h \in Handlers : \A k \in 1..Len(recvd[h]) :
        /\ subAt[h] >= 0
        /\ recvd[h][k] > subAt[h]
        /\ unsubAt[h] >= 0 => recvd[h][k] <= unsubAt[h]
        /\ h \in log[recvd[h][k]].reg

\* A viewer subscribed after an Event had been accepted and has received a
\* later one.
C4_Witness ==
    \E h \in Handlers : subAt[h] >= 1 /\ recvd[h] # <<>>

\* C5: unsubscribe on every exit path completes.  A handler that has left
\* its loop and issued the deferred unsubscribe eventually terminates with
\* its channel out of the registry.
C5_UnsubscribeCompletes ==
    \A h \in Handlers :
        (hpc[h] = "unsub") ~> (hpc[h] = "done" /\ ChanOf(h) \notin clients)

\* C6: producers are not blocked indefinitely.  Every publish a producer
\* attempts is eventually accepted by the Broker, whatever the viewers do.
C6_ProducersNotBlocked ==
    \A p \in Producers : (prod[p] # <<>>) ~> (prod[p] = <<>>)

\* Handler h received Event i, is through with it and wrote no frame for
\* it although its Body was a map: json.Marshal failed.
Skipped(h, i) ==
    /\ Count(recvd[h], i) = 1
    /\ hev[h] # i
    /\ ~log[i].body.isNil
    /\ \A k \in 1..Len(out[h]) : out[h][k].ev # i

\* C7: a serialization failure skips exactly one delivery.  A handler that
\* has skipped an Event is left able to serve later ones, as is every other
\* handler: it does not keep the Server mutex.
C7_SkipKeepsServing ==
    \A h \in Handlers : \A i \in 1..Len(log) :
        Skipped(h, i) => mutex # h

\* C8: published bodies are read-only.  The Body of every accepted Event is
\* what the producer handed over.
C8_BodyReadOnly ==
    \A i \in 1..Len(log) : heap[i] = log[i].body

\* The members of a JSON object under key k.
Members(json, k) == {j \in 1..Len(json) : json[j].k = k}

\* C9: injected fields.  Every emitted data line holds exactly one "id"
\* member, equal to the Event's ID, exactly one "updatedAt" member, an
\* integer, and for every other key exactly the producer's member.
C9_InjectedFields ==
    \A h \in Handlers : \A n \in 1..Len(out[h]) :
        out[h][n].tag = "data" =>
            LET json == out[h][n].json
                e == log[out[h][n].ev]
            IN  /\ \E j \in 1..Len(json) :
                     /\ Members(json, "id") = {j}
                     /\ json[j].v = StrV(e.id)
                /\ \E j \in 1..Len(json) :
                     /\ Members(json, "updatedAt") = {j}
                     /\ json[j].v.kind = "int"
                /\ \A j \in 1..Len(json) :
                     json[j].k \notin {"id", "updatedAt"} =>
                        /\ json[j].k \in DOMAIN e.body.m
                        /\ json[j].v = e.body.m[json[j].k]
                        /\ Members(json, json[j].k) = {j}
                /\ \A k \in DOMAIN e.body.m : Members(json, k) # {}

\* A frame was emitted for an Event whose body came with its own "id" and
\* "updatedAt".
C9_Witness ==
    \E h \in Handlers : \E n \in 1..Len(out[h]) :
        /\ out[h][n].tag = "data"
        /\ log[out[h][n].ev].body = StaleBody

\* C10: frame format and routing.  Every stream is a run of frames: an
\* event line, present exactly when the Event's target is not empty and
\* carrying that target, then the data line, then a blank line; frames
\* follow the order of reception, one per Event; nothing written is left
\* unflushed when the handler goes back to wait.
C10_FrameFormat ==
    \A h \in Handlers :
        LET o == out[h] IN
        /\ \A n \in 1..Len(o) :
             LET l == o[n]
                 t == log[l.ev].target
             IN  /\ l.tag \in {"event", "data", "blank"}
                 /\ Count(recvd[h], l.ev) = 1
                 /\ l.tag = "event" =>
                        /\ t # ""
                        /\ l.target = t
                        /\ n < Len(o) /\ o[n + 1].tag = "data"
                        /\ o[n + 1].ev = l.ev
                        /\ n > 1 => o[n - 1].tag = "blank"
                 /\ l.tag = "data" =>
                        /\ n < Len(o) /\ o[n + 1].tag = "blank"
                        /\ o[n + 1].ev = l.ev
                        /\ IF t # ""
                           THEN n > 1 /\ o[n - 1].tag = "event"
                                /\ o[n - 1].ev = l.ev
                           ELSE n > 1 => o[n - 1].tag = "blank"
                 /\ l.tag = "blank" =>
                        /\ n > 1 /\ o[n - 1].tag = "data"
                        /\ o[n - 1].ev = l.ev
                 /\ \A n2 \in 1..Len(o) : n < n2 => l.ev <= o[n2].ev
                 /\ \A n2 \in 1..Len(o) :
                        (n # n2 /\ o[n2].tag = l.tag) => o[n2].ev # l.ev
        /\ hpc[h] # "flush" => flushed[h] = Len(o)

\* One stream holds a frame with an event line and a frame without one.
C10_Witness ==
    \E h \in Handlers : \E n1, n2 \in 1..Len(out[h]) :
        /\ out[h][n1].tag = "event"
        /\ out[h][n2].tag = "data"
        /\ log[out[h][n2].ev].target = ""
        /\ flushed[h] = Len(out[h])

\* C11: malformed ingestion has no effect.  The step in which an ingestion
\* handler answers 400 leaves the publish channel (the sender blocked on it,
\* the Event the Broker holds and the Events it accepted), the Broker's
\* registry and state, and what every subscriber received as they were; and
\* while the answer is 400 the handler is not sending on the publish
\* channel.
C11_MalformedNoEffect ==
    /\ [](resp["post"] = StatusBadRequest => prod["post"] = <<>>)
    /\ [][(resp'["post"] = StatusBadRequest /\ resp["post"] # StatusBadRequest)
            => /\ prod' = prod
               /\ log' = log
               /\ clients' = clients
               /\ recvd' = recvd
               /\ UNCHANGED bvars]_vars

\* A request was answered 400 while a viewer was registered and had
\* received an Event.
C11_Witness ==
    /\ resp["post"] = StatusBadRequest
    /\ clients # {}
    /\ \E h \in Handlers : recvd[h] # <<>>

\* C12: a transport that cannot stream never subscribes.  A connection
\* answered 500 has returned: it never sent on newClients or defunctClients,
\* its channel is not in the registry, and nothing was written or received
\* on it.
C12_UnsupportedNeverSubscribes ==
    \A h \in Handlers :
        resp[h] = StatusInternalServerError =>
            /\ hpc[h] = "failed"
            /\ subAt[h] = -1
            /\ unsubAt[h] = -1
            /\ h \notin live
            /\ ChanOf(h) \notin clients
            /\ out[h] = <<>>
            /\ recvd[h] = <<>>

\* One connection was answered 500 while the other one is registered and an
\* Event has been accepted.
C12_Witness ==
    \E h, g \in Handlers :
        /\ resp[h] = StatusInternalServerError
        /\ ChanOf(g) \in clients
        /\ Len(log) >= 1

\* The registry of worker w, and the process-wide list, as sequences of
\* Jobs, now and after the step.
RegistryOf(w) == Contents(mem, workers[w].registry)
RegistryOfNext(w) == Contents(mem', workers'[w].registry)
DefaultJobs == Contents(mem, jobs)
DefaultJobsNext == Contents(mem', jobs')

\* How many times x occurs in the sequence q.
Occurrences(q, x) == Cardinality({k \in 1..Len(q) : q[k] = x})

\* C13: registering an absent Job is fatal and changes nothing.  A call of
\* Worker.Register or Register with nil panics and leaves every registry
\* and the memory behind it as it was; a call with a Job does not panic
\* and makes the targeted registry its old contents followed by that Job.
C13_RegisterNilFatal ==
    [][(call'.n # call.n /\ call'.op \in {"Register", "Worker.Register"})
         => IF call'.job = NoJob
            THEN /\ panicked'
                 /\ jobs' = jobs /\ workers' = workers /\ mem' = mem
            ELSE /\ ~panicked'
                 /\ call'.op = "Register" =>
                        DefaultJobsNext = Append(DefaultJobs, call'.job)
                 /\ call'.op = "Worker.Register" =>
                        RegistryOfNext(call'.w) =
                            Append(RegistryOf(call'.w), call'.job)]_vars

\* Worker.Register(nil) was called on a Worker that holds a default Job
\* followed by a Job registered on it, and the program panicked.
C13_Witness ==
    /\ panicked
    /\ call.op = "Worker.Register"
    /\ call.job = NoJob
    /\ RegistryOf(call.w) # <<>>
    /\ Len(RegistryOf(call.w)) > Len(DefaultJobs)
    /\ DefaultJobs # <<>>

\* C14: Worker registries are isolated copies.  NewWorker gives the Worker
\* the process-wide Jobs registered so far, in order; Worker.Register on a
\* Worker leaves the process-wide list and every other Worker's registry as
\* they were; Register leaves the registry of every Worker made as it was.
C14_RegistriesIsolated ==
    [][(call'.n # call.n) =>
         /\ call'.op = "NewWorker" =>
                /\ workers'[call'.w].made
                /\ RegistryOfNext(call'.w) = DefaultJobs
         /\ call'.op = "Worker.Register" =>
                /\ DefaultJobsNext = DefaultJobs
                /\ \A v \in Workers \ {call'.w} :
                       /\ workers'[v].made = workers[v].made
                       /\ RegistryOfNext(v) = RegistryOf(v)
         /\ call'.op = "Register" =>
                \A v \in Workers :
                    workers[v].made =>
                        /\ workers'[v].made
                        /\ RegistryOfNext(v) = RegistryOf(v)]_vars

\* Register was called after both Workers were made, one of which has had a
\* Job registered on it, and the three registries differ.
C14_Witness ==
    /\ call.op = "Register"
    /\ call.job # NoJob
    /\ \A w \in Workers : workers[w].made
    /\ RegistryOf("w1") # RegistryOf("w2")
    /\ RegistryOf("w1") # DefaultJobs
    /\ RegistryOf("w2") # DefaultJobs
    /\ RegistryOf("w2") # <<>>

\* C18: Worker.Start launches one task per Job of the Worker's registry at
\* the call.  After Start on a Worker its tasks are, Job for Job, as many
\* as the registry holds, each with the Worker's Config and with the
\* publish channel of the Worker's Broker; the other Worker's tasks are as
\* they were.
C18_StartOnePerJob ==
    [][(call'.n # call.n /\ call'.op = "Start") =>
         LET w == call'.w IN
         /\ Len(tasks'[w]) = Len(RegistryOf(w))
         /\ \A j \in Jobs \cup {NoJob} :
                Occurrences([k \in 1..Len(tasks'[w]) |-> tasks'[w][k].job], j)
                    = Occurrences(RegistryOf(w), j)
         /\ \A k \in 1..Len(tasks'[w]) :
                /\ tasks'[w][k].config = workers[w].config
                /\ tasks'[w][k].send = <<workers[w].broker, "events">>
         /\ \A v \in Workers \ {w} : tasks'[v] = tasks[v]]_vars

\* A started Worker runs a task for a default Job and one for a Job that
\* was registered on it only.
C18_Witness ==
    \E w \in Workers :
        /\ Len(tasks[w]) >= 2
        /\ DefaultJobs # <<>>
        /\ \E k \in 1..Len(tasks[w]) :
               Occurrences(DefaultJobs, tasks[w][k].job) = 0

\* C15: registry invariant.  The registry holds exactly the channels of the
\* handlers whose subscribe has been applied and whose unsubscribe has not
\* (a set, so without duplicates), never the channel of a handler that has
\* terminated, and it changes only in a step of the Broker's dispatch task:
\* the Broker, waiting in its select, takes the channel a handler is
\* sending on newClients or defunctClients.
C15_RegistryInvariant ==
    /\ [](/\ clients = {ChanOf(h) : h \in live}
          /\ Cardinality(clients) = Cardinality(live)
          /\ \A h \in Handlers :
                 /\ h \in live <=> (subAt[h] >= 0 /\ unsubAt[h] = -1)
                 /\ hpc[h] \in {"done", "idle", "failed"} =>
                        ChanOf(h) \notin clients)
    /\ [][clients' # clients =>
            /\ bpc = "select"
            /\ \E h \in Handlers :
                   /\ hpc[h] \in {"subscribe", "unsub"}
                   /\ hpc'[h] # hpc[h]
                   /\ clients' \in {clients \cup {ChanOf(h)},
                                    clients \ {ChanOf(h)}}]_vars

\* One handler has subscribed, received an Event and terminated, while the
\* other one is registered.
C15_Witness ==
    \E h, g \in Handlers :
        /\ hpc[h] = "done"
        /\ recvd[h] # <<>>
        /\ clients = {ChanOf(g)}

\* C16: handler lifetime is bound to the connection.  A handler that has
\* left its loop, to unsubscribe or already terminated, is one whose viewer
\* has disconnected.
C16_LeavesOnlyOnDisconnect ==
    \A h \in Handlers : hpc[h] \in {"unsub", "done"} => closed[h]

\* C17: successful ingestion publishes exactly one Event before
\* acknowledging.  The 204 is written in the step in which the Broker
\* accepts the handler's Event: one Event more is accepted, with the
\* request's id and decoded body, target "dashboards" on the dashboard
\* route and "" on the widget route, and the handler sends no other.  While
\* the handler is still sending, no 204 has been written.
C17_PublishThenAcknowledge ==
    /\ [](prod["post"] # <<>> => resp["post"] = 0)
    /\ [][(resp'["post"] = StatusNoContent /\ resp["post"] # StatusNoContent)
            => /\ prod["post"] # <<>>
               /\ prod'["post"] = <<>>
               /\ Len(log') = Len(log) + 1
               /\ SubSeq(log', 1, Len(log)) = log
               /\ LET r == prod["post"][2]
                      e == log'[Len(log')]
                  IN  /\ e.id = r.id
                      /\ e.body = r.body
                      /\ r.route = "dashboards" => e.target = "dashboards"
                      /\ r.route = "widgets" => e.target = ""]_vars

\* A widget request was answered 204 and its Event is accepted.
C17_Witness ==
    /\ resp["post"] = StatusNoContent
    /\ Len(log) >= 1
    /\ log[Len(log)].id = "w1"
    /\ log[Len(log)].target = ""
    /\ clients # {}

\* C19: mutual exclusion on body augmentation.  At most one handler is
\* between s.mutex.Lock() and the end of the marshalling, where the body is
\* written and serialized, and that handler holds the mutex.
C19_MutualExclusion ==
    /\ Cardinality({h \in Handlers : hpc[h] = "format"}) <= 1
    /\ \A h \in Handlers : hpc[h] = "format" => mutex = h

\* One handler is augmenting the body of an Event while the other one has
\* received the same Event and waits for the mutex.
C19_Witness ==
    \E h, g \in Handlers :
        /\ hpc[h] = "format"
        /\ hpc[g] = "lock"
        /\ hev[h] = hev[g]
        /\ mutex = h

\* The "updatedAt" number of a serialized body.
UpdatedAt(json) == json[CHOOSE j \in Members(json, "updatedAt") : TRUE].v.n

\* C20: timestamp value.  The clock never goes backwards, so on every
\* stream the "updatedAt" of each frame is not negative and not smaller
\* than that of an earlier frame.
C20_TimestampMonotonic ==
    \A h \in Handlers : \A n \in 1..Len(out[h]) :
        out[h][n].tag = "data" =>
            /\ UpdatedAt(out[h][n].json) >= 0
            /\ \A n2 \in 1..Len(out[h]) :
                   (n < n2 /\ out[h][n2].tag = "data") =>
                       UpdatedAt(out[h][n].json) <= UpdatedAt(out[h][n2].json)
====
